---------------------------- MODULE Spec2Model ----------------------------
(***************************************************************************)
(* A model of GlacierScript (src/glacierscript.py): the withdrawal flow    *)
(* (withdraw_interactive, get_fee_interactive, create_unsigned_transaction,*)
(* sign_transaction), the deposit flow (deposit_interactive,               *)
(* get_address_for_wif_privkey, addmultisigaddress), the UTXO selector     *)
(* (get_utxos), the QR writer (write_and_verify_qr_code), xor_hex_strings  *)
(* and ensure_bitcoind_running.                                            *)
(*                                                                         *)
(* Units.  The program computes with decimal.Decimal values quantized to   *)
(* SATOSHI_PLACES (1e-8 BTC).  The model counts such values in whole       *)
(* satoshi.  Values that have not been quantized yet (the text the         *)
(* operator types for the withdrawal amount, the JSON number of a decoded  *)
(* output's "value") are counted in tenths of a satoshi, so that           *)
(* quantize() has something to round.                                      *)
(***************************************************************************)
EXTENDS Integers, Sequences, FiniteSets, TLC

(***************************************************************************)
(* Bounds of the model                                                     *)
(***************************************************************************)
\* largest number of raw transactions the operator supplies (num_tx)
MaxTx == 2
\* largest m and n of deposit_interactive(m, n)
MaxM == 3
MaxN == 2
\* largest number of outputs of a transaction handed to get_utxos
MaxVout == 3

(***************************************************************************)
(* Program constants                                                       *)
(***************************************************************************)
\* MAX_FEE = .005 BTC.  The float .005 lies strictly between 500000 and
\* 500001 satoshi (it is 0.005000000000000000104...), so for a Decimal
\* quantized to whole satoshi "fee > MAX_FEE" is "fee > 500000 satoshi".
MAX_FEE == 500000
\* The float 1e-8 of "change_amount < 1e-8" is
\* 1.00000000000000002092...E-8: strictly between 1 and 2 satoshi.  This is
\* the largest whole number of satoshi below it, so for a Decimal quantized
\* to whole satoshi "change_amount < 1e-8" is "change_amount <= 1 satoshi".
FLOAT_1E8_FLOOR == 1

(***************************************************************************)
(* Input domains                                                           *)
(***************************************************************************)
Addrs == {"A", "B"}
RedeemScripts == {"rs"}
\* the private keys the operator types (key_count of them)
KeyLists == { <<"K1">>, <<"K1", "K2">> }

\* scriptPubKey of a decoded output: with or without the "address" field
Spk(a) == [hex |-> "51", address |-> a]
SpkNoAddress == [hex |-> "51"]
Vout(n, value, spk) == [n |-> n, value |-> value, scriptPubKey |-> spk]

\* Results of decoderawtransaction the operator's raw transactions decode
\* to.  "value" is in tenths of a satoshi.
DecodedTxs ==
    { [txid |-> "t1", vout |-> << Vout(0, 40, Spk("A")), Vout(1, 70, SpkNoAddress) >>],
      [txid |-> "t2", vout |-> << Vout(0, 30, Spk("B")), Vout(1, 15, Spk("A")) >>] }

\* fee rates the operator types (satoshi per vbyte, any integer)
Rates == {-1, 2, 250000, 250001}
\* "vsize" of the decoded signed transaction
VSizes == {2}
\* text typed at the withdrawal-amount prompt: blank, not a number, or a
\* decimal (in tenths of a satoshi)
AmountEntries == {-10, 0, 10, 15, 40}

(***************************************************************************)
(* Pure helpers                                                            *)
(***************************************************************************)
RECURSIVE SumSeq(_)
SumSeq(s) == IF s = <<>> THEN 0 ELSE Head(s) + SumSeq(Tail(s))

\* Decimal(x).quantize(SATOSHI_PLACES) under the default context
\* (ROUND_HALF_EVEN): tenths of a satoshi -> whole satoshi.
QuantizeSat(d) ==
    LET q == d \div 10
        r == d % 10
    IN  IF r < 5 THEN q
        ELSE IF r > 5 THEN q + 1
        ELSE IF q % 2 = 0 THEN q ELSE q + 1

\* satoshi_to_btc(satoshi): Decimal(satoshi) / 10^8, quantized.  The
\* argument is an int, so the quotient is a whole number of satoshi and the
\* quantization changes nothing: the result counts `satoshi` satoshi.
satoshi_to_btc(satoshi) == QuantizeSat(satoshi * 10)

(***************************************************************************)
(* Values of the destination mapping.  The mapping holds the int 0 at      *)
(* first and str(...) of an amount later.  A string is modelled by how it  *)
(* was formed, which decides whether it equals the literal '0':            *)
(*   str(0)                       -> '0'            (form "int")           *)
(*   str(Decimal with exponent -8) -> '0E-8', '4E-8', '0.00500000', ...    *)
(*                                                   (form "dec8")         *)
(***************************************************************************)
PyInt(i) == [type |-> "int", form |-> "int", sat |-> i]
StrOfInt(i) == [type |-> "str", form |-> "int", sat |-> i]
StrOfDecimal(sat) == [type |-> "str", form |-> "dec8", sat |-> sat]

\* val != '0' (create_unsigned_transaction's pruning test)
NotStringZero(val) == ~(val.type = "str" /\ val.form = "int" /\ val.sat = 0)

(***************************************************************************)
(* OrderedDict: a sequence of [key, val] with distinct keys, in insertion  *)
(* order.  Assigning to an existing key keeps its position.                *)
(***************************************************************************)
DictKeys(d) == { d[i].key : i \in 1..Len(d) }
DictSet(d, k, v) ==
    IF k \in DictKeys(d)
    THEN [i \in 1..Len(d) |-> IF d[i].key = k THEN [key |-> k, val |-> v] ELSE d[i]]
    ELSE Append(d, [key |-> k, val |-> v])
DictSumSat(d) == SumSeq([i \in 1..Len(d) |-> d[i].val.sat])

(***************************************************************************)
(* get_utxos(tx, address)                                                  *)
(***************************************************************************)
\* the loop body for one output, with the list built so far
UtxoStepNoSkip(r, output, address) ==
    IF r.raised THEN r
    ELSE IF "address" \notin DOMAIN output.scriptPubKey
         THEN [raised |-> TRUE, utxos |-> r.utxos]
         ELSE IF address = output.scriptPubKey.address
              THEN [raised |-> FALSE, utxos |-> Append(r.utxos, output)]
              ELSE r
UtxoStep(r, output, address) ==
    IF r.raised THEN r
    ELSE IF "address" \notin DOMAIN output.scriptPubKey
         THEN r
         ELSE IF address = output.scriptPubKey.address
              THEN [raised |-> FALSE, utxos |-> Append(r.utxos, output)]
              ELSE r

RECURSIVE GetUtxosLoop(_, _, _)
GetUtxosLoop(vout, address, r) ==
    IF vout = <<>> THEN r
    ELSE GetUtxosLoop(Tail(vout), address, UtxoStep(r, Head(vout), address))

\* the call's outcome: whether it raised, and the list it returns
get_utxos_outcome(tx, address) ==
    GetUtxosLoop(tx.vout, address, [raised |-> FALSE, utxos |-> <<>>])
get_utxos(tx, address) == get_utxos_outcome(tx, address).utxos

(***************************************************************************)
(* create_unsigned_transaction / sign_transaction: the requests they send  *)
(***************************************************************************)
\* destinations pruned of the entries whose value is the string '0'
PruneDestinations(destinations) ==
    SelectSeq(destinations, LAMBDA e : NotStringZero(e.val))

\* the (txid, vout) input of each UTXO at source_address, tx by tx
RECURSIVE TxInputs(_, _)
TxInputs(input_txs, source_address) ==
    IF input_txs = <<>> THEN <<>>
    ELSE LET tx == Head(input_txs)
             utxos == get_utxos(tx, source_address)
         IN  [i \in 1..Len(utxos) |-> [txid |-> tx.txid, vout |-> utxos[i].n]]
             \o TxInputs(Tail(input_txs), source_address)

\* the per-input metadata sign_transaction sends
RECURSIVE SignInputs(_, _, _)
SignInputs(input_txs, source_address, redeem) ==
    IF input_txs = <<>> THEN <<>>
    ELSE LET tx == Head(input_txs)
             utxos == get_utxos(tx, source_address)
         IN  [i \in 1..Len(utxos) |->
                 [txid |-> tx.txid, vout |-> utxos[i].n, amount |-> utxos[i].value,
                  scriptPubKey |-> utxos[i].scriptPubKey.hex, redeemScript |-> redeem]]
             \o SignInputs(Tail(input_txs), source_address, redeem)

\* the createrawtransaction request
CreateRawRequest(source_address, destinations, input_txs) ==
    [made |-> TRUE,
     inputs |-> TxInputs(input_txs, source_address),
     outputs |-> PruneDestinations(destinations)]
NoRequest == [made |-> FALSE, inputs |-> <<>>, outputs |-> <<>>]

\* the signrawtransactionwithkey request
SignRequest(source_address, signing_keys, redeem, input_txs) ==
    [made |-> TRUE, keys |-> signing_keys,
     inputs |-> SignInputs(input_txs, source_address, redeem)]
NoSignRequest == [made |-> FALSE, keys |-> <<>>, inputs |-> <<>>]

(***************************************************************************)
(* withdraw_interactive: the loop's resets, the sum and the arithmetic     *)
(***************************************************************************)
\* utxos += get_utxos(tx, source_address), over the transactions entered
RECURSIVE CollectUtxos(_, _)
CollectUtxos(txlist, source_address) ==
    IF txlist = <<>> THEN <<>>
    ELSE get_utxos(Head(txlist), source_address)
         \o CollectUtxos(Tail(txlist), source_address)

\* utxo_sum += Decimal(utxo["value"]).quantize(SATOSHI_PLACES), from 0
UtxoSumFirstOnly(utxolist) ==
    IF utxolist = <<>> THEN 0 ELSE QuantizeSat(utxolist[1].value)
UtxoSum(utxolist) == SumSeq([i \in 1..Len(utxolist) |-> QuantizeSat(utxolist[i].value)])

\* fee > MAX_FEE
FeeAboveCeilingOff(f) == FALSE
FeeAboveCeiling(f) == f > MAX_FEE

\* fee > input_amount
FeeExceedsInput(f, input) == f > input

\* fee + withdrawal_amount > input_amount
OutputsExceedInputNoFee(f, w, input) == w > input
OutputsExceedInput(f, w, input) == f + w > input

\* change_amount < 1e-8
ChangeBelowFloat(c) == c <= FLOAT_1E8_FLOOR

\* what the operator types at the withdrawal-amount prompt
AmountInputs ==
    { [kind |-> "blank", tenths |-> 0], [kind |-> "invalid", tenths |-> 0] }
    \cup { [kind |-> "decimal", tenths |-> t] : t \in AmountEntries }
NoAmountInput == [kind |-> "none", tenths |-> 0]

\* The amount/change finalization of one loop iteration: from the fee, the
\* input amount and the typed amount to the withdrawal amount, the change
\* and the updated destination mapping; or the exception it ends in.
PlanOutcome(src, dst, addrs, input, f, entry) ==
    IF entry.kind = "invalid"
    THEN [status |-> "invalid", w |-> 0, change |-> 0, addresses |-> addrs]
    ELSE LET w == IF entry.kind = "blank" THEN input - f
                  ELSE QuantizeSat(entry.tenths)
             c == input - w - f
             changeVal == IF ChangeBelowFloat(c) THEN StrOfInt(0) ELSE StrOfDecimal(c)
         IN  IF OutputsExceedInput(f, w, input)
             THEN [status |-> "raise", w |-> w, change |-> 0, addresses |-> addrs]
             ELSE [status |-> "ok", w |-> w, change |-> changeVal.sat,
                   addresses |-> DictSet(DictSet(addrs, dst, StrOfDecimal(w)),
                                         src, changeVal)]

(***************************************************************************)
(* State                                                                   *)
(***************************************************************************)
VARIABLES
    \* withdraw_interactive
    pc,                 \* where the withdrawal flow stands
    source_address, redeem_script, dest_address,
    addresses,          \* the OrderedDict of destinations
    txs, utxos, utxo_sum, keys,
    input_amount, fee, withdrawal_amount, change_amount,
    \* get_fee_interactive's locals
    fee_basis, size, gf_fee, measure_request,
    gf_signed_tx,       \* its signed_tx: "none", or "hex" once signed (only
                        \* signed_tx["hex"] is ever read there)
    \* the requests of the final transaction, and how often it was built
    final_request, final_sign_request, n_final_builds,
    signed_tx,          \* the last result of sign_transaction
    printed_complete,   \* what print(signed_tx["complete"]) showed
    msg,                \* the last message printed to the operator
    raised,             \* the exception that ended the flow: "none", the
                        \* external call that failed, or the error raised
    \* history: what the operator entered and answered in the current loop
    \* iteration, and whether a signing result went by unshown
    entered, fee_answer, plan_answer, unsurfaced_signing,
    plan_declined,      \* history: a plan was declined earlier in this run
    \* deposit_interactive
    d_pc,               \* where the deposit flow stands
    m, n,               \* required and total number of keys (-m, -n)
    d_keys,             \* keys: the WIF private keys created
    d_addresses,        \* addresses: one per key, from the external node
    d_calls,            \* the bitcoin-cli calls made for addresses and the
                        \* multisig descriptor, in order, with their results
    d_multisig,         \* the addmultisigaddress request
    d_raised,           \* the exception that ended the flow, or "none"
    \* get_utxos
    u_pc, u_tx, u_address, u_result,
    u_tx0,              \* history: the transaction as it was handed over
    \* write_and_verify_qr_code
    q_pc,               \* where the call stands
    q_data,             \* data: its length and what of its characters matters
    q_files,            \* the files of the working directory, with contents
    q_filenames,        \* filenames: the files written, in order
    q_qrdata,           \* qrdata: what decode_qr(filenames) returned
    q_warned,           \* the verification warning was printed
    q_printed,          \* the "QR code for ... written to ..." line was printed
    q_raised,           \* the exception that ended the call, or "none"
    q_files0,           \* history: the files before the call
    \* xor_hex_strings
    x_pc, str1, str2,
    x_result,           \* the string returned
    x_raised,           \* the exception raised, or "none"
    \* ensure_bitcoind_running
    e_pc,               \* where the call stands
    times,              \* its loop counter
    e_daemon,           \* return code of bitcoind_call("-daemon", ...)
    e_probes,           \* the result of each getnetworkinfo probe, in order
    e_sleeps,           \* number of time.sleep(0.5) done
    e_wallet,           \* create_default_wallet's calls, in order
    e_raised            \* the exception that ended the call, or "none"

wvars == << pc, source_address, redeem_script, dest_address,
            addresses, txs, utxos, utxo_sum, keys, input_amount, fee,
            withdrawal_amount, change_amount, fee_basis, size, gf_fee,
            measure_request, gf_signed_tx, final_request, final_sign_request,
            n_final_builds, signed_tx, printed_complete, msg, raised,
            entered, fee_answer, plan_answer, unsurfaced_signing,
            plan_declined >>

dvars == << d_pc, m, n, d_keys, d_addresses, d_calls, d_multisig, d_raised >>
uvars == << u_pc, u_tx, u_address, u_result, u_tx0 >>
qvars == << q_pc, q_data, q_files, q_filenames, q_qrdata, q_warned, q_printed,
            q_raised, q_files0 >>
xvars == << x_pc, str1, str2, x_result, x_raised >>
evars == << e_pc, times, e_daemon, e_probes, e_sleeps, e_wallet, e_raised >>
vars == << wvars, dvars, uvars, qvars, xvars, evars >>

NoSigned == [present |-> FALSE, complete |-> FALSE]
NotPrinted == [shown |-> FALSE, value |-> FALSE]
NothingEntered ==
    [source |-> "", dest |-> "", txs |-> <<>>, keys |-> <<>>, fee |-> 0,
     measured |-> NoRequest, amount |-> NoAmountInput]

WInit ==
    /\ pc = "start"
    /\ source_address = "" /\ redeem_script = "" /\ dest_address = ""
    /\ addresses = <<>>
    /\ txs = <<>> /\ utxos = <<>> /\ utxo_sum = 0 /\ keys = <<>>
    /\ input_amount = 0 /\ fee = 0 /\ withdrawal_amount = 0 /\ change_amount = 0
    /\ fee_basis = 0 /\ size = 0 /\ gf_fee = 0 /\ measure_request = NoRequest
    /\ gf_signed_tx = "none"
    /\ final_request = NoRequest /\ final_sign_request = NoSignRequest
    /\ n_final_builds = 0
    /\ signed_tx = NoSigned /\ printed_complete = NotPrinted
    /\ msg = "" /\ raised = "none"
    /\ entered = NothingEntered /\ fee_answer = "none" /\ plan_answer = "none"
    /\ unsurfaced_signing = FALSE
    /\ plan_declined = FALSE

\* the withdrawal flow is not running
WIdle ==
    /\ pc = "idle"
    /\ source_address = "" /\ redeem_script = "" /\ dest_address = ""
    /\ addresses = <<>>
    /\ txs = <<>> /\ utxos = <<>> /\ utxo_sum = 0 /\ keys = <<>>
    /\ input_amount = 0 /\ fee = 0 /\ withdrawal_amount = 0 /\ change_amount = 0
    /\ fee_basis = 0 /\ size = 0 /\ gf_fee = 0 /\ measure_request = NoRequest
    /\ gf_signed_tx = "none"
    /\ final_request = NoRequest /\ final_sign_request = NoSignRequest
    /\ n_final_builds = 0
    /\ signed_tx = NoSigned /\ printed_complete = NotPrinted
    /\ msg = "" /\ raised = "none"
    /\ entered = NothingEntered /\ fee_answer = "none" /\ plan_answer = "none"
    /\ unsurfaced_signing = FALSE
    /\ plan_declined = FALSE

(***************************************************************************)
(* withdraw_interactive                                                    *)
(***************************************************************************)
\* safety_checklist(), ensure_bitcoind_running(),
\* require_minimum_bitcoind_version(220000)
W_Start ==
    /\ pc = "start"
    /\ \E outcome \in {"ok", "unsafe", "timeout", "getnetworkinfo_failed", "old_version"} :
         /\ pc' = CASE outcome = "ok" -> "loop_top"
                    [] outcome \in {"unsafe", "old_version"} -> "exit"
                    [] OTHER -> "error"
         /\ raised' = IF outcome \in {"timeout", "getnetworkinfo_failed"}
                           THEN outcome ELSE "none"
         /\ msg' = outcome
    /\ UNCHANGED << source_address, redeem_script, dest_address,
                    addresses, txs, utxos, utxo_sum, keys, input_amount, fee,
                    withdrawal_amount, change_amount, fee_basis, size, gf_fee,
                    measure_request, gf_signed_tx, final_request, final_sign_request,
                    n_final_builds, signed_tx, printed_complete,
                    entered, fee_answer, plan_answer, unsurfaced_signing,
                    plan_declined >>
    /\ UNCHANGED << dvars, uvars, qvars, xvars, evars >>

\* what the loop's first statements set the accumulating variables to
NewAddresses == <<>>
NewTxs == <<>>
NewUtxosStale == utxos
NewUtxos == <<>>
NewUtxoSum == 0
NewKeys == <<>>

\* One pass from the top of the while loop to the call of
\* get_fee_interactive: the addresses, the raw transactions (each decoded by
\* the external node, which may fail), the UTXO sum, the keys, and
\* get_fee_interactive's ensure_bitcoind_running().
W_Plan ==
    /\ pc = "loop_top"
    /\ \E src \in Addrs, dst \in Addrs, rs \in RedeemScripts, num_tx \in 0..MaxTx :
       \E txlist \in [1..num_tx -> DecodedTxs], fail_at \in 0..num_tx,
          klist \in KeyLists, up \in BOOLEAN :
         LET decoded == IF fail_at = 0 THEN txlist ELSE SubSeq(txlist, 1, fail_at - 1)
             all_txs == NewTxs \o decoded
             all_utxos == NewUtxos \o CollectUtxos(decoded, src)
             found == fail_at = 0 /\ Len(all_utxos) # 0
         IN  /\ source_address' = src
             /\ redeem_script' = rs
             /\ dest_address' = dst
             /\ addresses' = DictSet(DictSet(NewAddresses, src, PyInt(0)), dst, PyInt(0))
             /\ txs' = all_txs
             /\ utxos' = all_utxos
             /\ utxo_sum' = IF found THEN NewUtxoSum + UtxoSum(all_utxos) ELSE NewUtxoSum
             /\ keys' = IF found THEN NewKeys \o klist ELSE keys
             /\ input_amount' = IF found THEN utxo_sum' ELSE input_amount
             /\ entered' = [source |-> src, dest |-> dst, txs |-> decoded,
                            keys |-> IF found THEN klist ELSE <<>>,
                            fee |-> 0, measured |-> NoRequest,
                            amount |-> NoAmountInput]
             /\ fee_answer' = "none"
             /\ plan_answer' = "none"
             /\ pc' = IF fail_at # 0 THEN "error"
                      ELSE IF Len(all_utxos) = 0 THEN "exit"
                      ELSE IF up THEN "fee_prompt" ELSE "error"
             /\ raised' = IF fail_at # 0 THEN "decoderawtransaction"
                               ELSE IF found /\ ~up THEN "timeout" ELSE "none"
             /\ msg' = IF fail_at # 0 THEN msg
                       ELSE IF Len(all_utxos) = 0 THEN "no_utxos" ELSE "total_unspent"
    /\ UNCHANGED << fee, withdrawal_amount, change_amount,
                    fee_basis, size, gf_fee, measure_request, gf_signed_tx, final_request,
                    final_sign_request, n_final_builds, signed_tx,
                    printed_complete, unsurfaced_signing,
                    plan_declined >>
    /\ UNCHANGED << dvars, uvars, qvars, xvars, evars >>

(***************************************************************************)
(* get_fee_interactive                                                     *)
(***************************************************************************)
\* One pass of "while not approve" up to the ceiling test: the rate, the
\* transaction built and signed to be measured, its vsize, the fee.  The
\* pass either runs through (with a rate, the signer's completeness flag and
\* the measured vsize) or ends in an exception: int() of the typed rate, the
\* node not starting, or a failed call of the external node.
FeeRoundChoices ==
    [outcome : {"ok"}, rate : Rates, vsize : VSizes]
    \cup [outcome : {"invalid_rate", "timeout", "createrawtransaction",
                     "signrawtransactionwithkey", "decoderawtransaction"},
          rate : {0}, vsize : {0}]

F_Round ==
    /\ pc = "fee_prompt"
    /\ \E choice \in FeeRoundChoices :
         LET outcome == choice.outcome
             rate == choice.rate
             vsize == choice.vsize
             signed == outcome \in {"ok", "decoderawtransaction"}
             f == satoshi_to_btc(vsize * rate)
         IN  \* an exception leaves the function: its locals are gone
             /\ fee_basis' = IF outcome = "ok" THEN rate ELSE 0
             /\ measure_request' =
                  IF outcome = "ok" THEN CreateRawRequest(source_address, addresses, txs)
                  ELSE NoRequest
             /\ gf_signed_tx' = IF outcome = "ok" THEN "hex" ELSE "none"
             \* the result is decoded for its vsize and dropped; nothing of it
             \* is printed
             /\ unsurfaced_signing' = (unsurfaced_signing \/ signed)
             /\ size' = IF outcome = "ok" THEN vsize ELSE 0
             /\ gf_fee' = IF outcome = "ok" THEN f ELSE 0
             /\ fee_answer' = "none"
             /\ raised' = IF outcome = "ok" THEN "none" ELSE outcome
             /\ msg' = IF outcome # "ok" THEN msg
                       ELSE IF FeeAboveCeiling(f) THEN "fee_too_high" ELSE "fee_will_be"
             /\ pc' = IF outcome # "ok" THEN "error"
                      ELSE IF FeeAboveCeiling(f) THEN "fee_prompt" ELSE "fee_confirm"
    /\ UNCHANGED << source_address, redeem_script, dest_address,
                    addresses, txs, utxos, utxo_sum, keys, input_amount, fee,
                    withdrawal_amount, change_amount, final_request,
                    final_sign_request, n_final_builds, signed_tx,
                    printed_complete, entered, plan_answer,
                    plan_declined >>
    /\ UNCHANGED << dvars, uvars, qvars, xvars, evars >>

\* approve = True only on a yes
FeeApprove(answer) == answer = "y"

\* where a fee greater than the input amount leads: sys.exit()
AfterFeeExceedsInputRetry == "loop_top"
AfterFeeExceedsInput == "exit"

\* yes_no_interactive() on the fee; on a yes the fee is returned to
\* withdraw_interactive, which compares it with the input amount.
F_Confirm ==
    /\ pc = "fee_confirm"
    /\ \E answer \in {"y", "n"} :
         /\ fee_answer' = answer
         /\ IF FeeApprove(answer)
            THEN /\ fee' = gf_fee
                 /\ entered' = [entered EXCEPT !.fee = gf_fee,
                                               !.measured = measure_request]
                 \* the function returns: its locals are gone
                 /\ fee_basis' = 0 /\ size' = 0 /\ gf_fee' = 0
                 /\ measure_request' = NoRequest
                 /\ gf_signed_tx' = "none"
                 /\ IF FeeExceedsInput(gf_fee, input_amount)
                    THEN /\ msg' = "fee_greater_than_input"
                         /\ pc' = AfterFeeExceedsInput
                    ELSE /\ msg' = "enter_amount"
                         /\ pc' = "amount"
            ELSE /\ msg' = "fee_aborted"
                 /\ pc' = "fee_prompt"
                 /\ UNCHANGED << fee, entered, fee_basis, size, gf_fee,
                                 measure_request, gf_signed_tx >>
    /\ UNCHANGED << source_address, redeem_script, dest_address,
                    addresses, txs, utxos, utxo_sum, keys, input_amount,
                    withdrawal_amount, change_amount, final_request,
                    final_sign_request, n_final_builds, printed_complete,
                    signed_tx, raised, plan_answer, unsurfaced_signing,
                    plan_declined >>
    /\ UNCHANGED << dvars, uvars, qvars, xvars, evars >>

(***************************************************************************)
(* withdraw_interactive, continued                                         *)
(***************************************************************************)
\* The amount prompt, the output test, the change and the mapping's update.
W_Amount ==
    /\ pc = "amount"
    /\ \E entry \in AmountInputs :
         LET plan == PlanOutcome(source_address, dest_address, addresses,
                                 input_amount, fee, entry)
         IN  /\ entered' = [entered EXCEPT !.amount = entry]
             /\ withdrawal_amount' = IF plan.status = "invalid" THEN withdrawal_amount
                                     ELSE plan.w
             /\ change_amount' = IF plan.status = "ok" THEN plan.change ELSE change_amount
             /\ addresses' = plan.addresses
             /\ msg' = CASE plan.status = "ok" -> "is_this_correct"
                         [] plan.status = "raise" -> "outputs_greater_than_input"
                         [] OTHER -> msg
             /\ pc' = IF plan.status = "ok" THEN "confirm" ELSE "error"
             /\ raised' = CASE plan.status = "ok" -> "none"
                            [] plan.status = "raise" -> "output_values_greater_than_input"
                            [] OTHER -> "invalid_amount"
    /\ UNCHANGED << source_address, redeem_script, dest_address,
                    txs, utxos, utxo_sum, keys, input_amount, fee, fee_basis,
                    size, gf_fee, measure_request, gf_signed_tx, final_request,
                    final_sign_request, n_final_builds, signed_tx,
                    printed_complete, fee_answer, plan_answer,
                    unsurfaced_signing,
                    plan_declined >>
    /\ UNCHANGED << dvars, uvars, qvars, xvars, evars >>

\* approve = True only on a yes
PlanApprove(answer) == answer = "y"

\* yes_no_interactive() on the plan
W_Confirm ==
    /\ pc = "confirm"
    /\ \E answer \in {"y", "n"} :
         /\ plan_answer' = answer
         /\ pc' = IF PlanApprove(answer) THEN "final" ELSE "loop_top"
         /\ msg' = IF PlanApprove(answer) THEN "calculating" ELSE "process_aborted"
         /\ plan_declined' = (plan_declined \/ answer = "n")
    /\ UNCHANGED << source_address, redeem_script, dest_address,
                    addresses, txs, utxos, utxo_sum, keys, input_amount, fee,
                    withdrawal_amount, change_amount, fee_basis, size, gf_fee,
                    measure_request, gf_signed_tx, final_request, final_sign_request,
                    n_final_builds, signed_tx, printed_complete, raised,
                    entered, fee_answer, unsurfaced_signing >>
    /\ UNCHANGED << dvars, uvars, qvars, xvars, evars >>

\* After the loop: create_unsigned_transaction, sign_transaction and the
\* prints of the signed result.
W_Final ==
    /\ pc = "final"
    /\ \E outcome \in {"ok", "timeout", "createrawtransaction",
                       "signrawtransactionwithkey"},
          complete \in BOOLEAN :
         LET built == outcome # "timeout"
             sign_sent == outcome \in {"ok", "signrawtransactionwithkey"}
         IN  /\ final_request' = IF built
                                 THEN CreateRawRequest(source_address, addresses, txs)
                                 ELSE final_request
             /\ n_final_builds' = IF built THEN n_final_builds + 1 ELSE n_final_builds
             /\ final_sign_request' =
                  IF sign_sent THEN SignRequest(source_address, keys, redeem_script, txs)
                  ELSE final_sign_request
             /\ signed_tx' = IF outcome = "ok"
                             THEN [present |-> TRUE, complete |-> complete]
                             ELSE signed_tx
             /\ printed_complete' = IF outcome = "ok"
                                    THEN [shown |-> TRUE, value |-> complete]
                                    ELSE printed_complete
             /\ raised' = IF outcome = "ok" THEN "none" ELSE outcome
             /\ msg' = IF outcome = "ok" THEN "raw_signed_transaction" ELSE msg
             /\ pc' = IF outcome = "ok" THEN "write_qr" ELSE "error"
    /\ UNCHANGED << source_address, redeem_script, dest_address,
                    addresses, txs, utxos, utxo_sum, keys, input_amount, fee,
                    withdrawal_amount, change_amount, fee_basis, size, gf_fee,
                    measure_request, gf_signed_tx, entered, fee_answer, plan_answer,
                    unsurfaced_signing,
                    plan_declined >>
    /\ UNCHANGED << dvars, uvars, qvars, xvars, evars >>

\* write_and_verify_qr_code("transaction", ...): qrencode and zbarimg run
\* with check=True, so a failure of either raises.
W_WriteQr ==
    /\ pc = "write_qr"
    /\ \E ok \in BOOLEAN :
         /\ pc' = IF ok THEN "done" ELSE "error"
         /\ raised' = IF ok THEN "none" ELSE "qr"
         /\ msg' = IF ok THEN "qr_written" ELSE msg
    /\ UNCHANGED << source_address, redeem_script, dest_address,
                    addresses, txs, utxos, utxo_sum, keys, input_amount, fee,
                    withdrawal_amount, change_amount, fee_basis, size, gf_fee,
                    measure_request, gf_signed_tx, final_request, final_sign_request,
                    n_final_builds, signed_tx, printed_complete,
                    entered, fee_answer, plan_answer, unsurfaced_signing,
                    plan_declined >>
    /\ UNCHANGED << dvars, uvars, qvars, xvars, evars >>

WNext ==
    \/ W_Start
    \/ W_Plan
    \/ F_Round
    \/ F_Confirm
    \/ W_Amount
    \/ W_Confirm
    \/ W_Final
    \/ W_WriteQr

NoMultisig == [made |-> FALSE, m |-> 0, keys |-> <<>>]
NoResult == [raised |-> FALSE, utxos |-> <<>>]
NoTx == [txid |-> "", vout |-> <<>>]

\* the deposit flow is not running
DIdle ==
    /\ d_pc = "idle" /\ m = 0 /\ n = 0
    /\ d_keys = <<>> /\ d_addresses = <<>> /\ d_calls = <<>>
    /\ d_multisig = NoMultisig /\ d_raised = "none"

\* get_utxos is not being called
UIdle ==
    /\ u_pc = "idle" /\ u_tx = NoTx /\ u_address = "" /\ u_result = NoResult
    /\ u_tx0 = NoTx

NoData == [len |-> 0, upper |-> TRUE, ws |-> FALSE]

\* write_and_verify_qr_code is not being called
QIdle ==
    /\ q_pc = "idle" /\ q_data = NoData /\ q_files = {} /\ q_filenames = <<>>
    /\ q_qrdata = <<>> /\ q_warned = FALSE /\ q_printed = FALSE
    /\ q_raised = "none" /\ q_files0 = {}

\* xor_hex_strings is not being called
XIdle ==
    /\ x_pc = "idle" /\ str1 = <<>> /\ str2 = <<>> /\ x_result = <<>>
    /\ x_raised = "none"

\* ensure_bitcoind_running is not being called
EIdle ==
    /\ e_pc = "idle" /\ times = 0 /\ e_daemon = 0 /\ e_probes = <<>>
    /\ e_sleeps = 0 /\ e_wallet = <<>> /\ e_raised = "none"

\* the helpers are not being called on their own
HelpersIdle == QIdle /\ XIdle /\ EIdle

\* create-withdrawal-data
InitWithdraw == WInit /\ DIdle /\ UIdle /\ HelpersIdle

SpecWithdraw == InitWithdraw /\ [][WNext]_vars

(***************************************************************************)
(* Properties of the withdrawal flow                                       *)
(***************************************************************************)
\* the operator has confirmed the plan held in the state
PlanConfirmed == pc \in {"final", "write_qr", "done"}
\* the plan in the state was put before the operator, or went further
PlanPresented == pc \in {"confirm", "final", "write_qr", "done"}

\* C1: for every plan the operator confirms, the amounts of the destination
\* mapping handed to create_unsigned_transaction plus the fee equal the total
\* input value, in whole satoshi.
C1_ValueConserved ==
    PlanConfirmed => DictSumSat(addresses) + fee = input_amount

\* C2: a plan with fee > total input or fee + withdrawal amount > total input
\* never reaches the operator's confirmation and is never built or signed.
C2_OverspendRejected ==
    /\ PlanPresented =>
         /\ ~(fee > input_amount)
         /\ ~(fee + withdrawal_amount > input_amount)
    /\ (final_request.made \/ final_sign_request.made) =>
         /\ plan_answer = "y"
         /\ ~(fee > input_amount)
         /\ ~(fee + withdrawal_amount > input_amount)
    /\ (pc \in {"exit", "error"}
          /\ msg \in {"fee_greater_than_input", "outputs_greater_than_input"}) =>
         /\ plan_answer = "none"
         /\ ~final_request.made /\ ~final_sign_request.made

\* a plan whose fee plus withdrawal amount exceeds the input was rejected
C2_Witness ==
    /\ pc = "error" /\ msg = "outputs_greater_than_input"
    /\ fee <= input_amount
    /\ fee + withdrawal_amount > input_amount
    /\ ~final_request.made

\* C3: get_fee_interactive returns a fee only if it is vsize * rate of the
\* same pass, is at most 500,000 satoshi, and was answered yes in that pass;
\* a fee above the ceiling is never put to the operator and leads back to
\* the rate prompt, and so does a declined fee.
C3_FeeMeasuredCappedConfirmed ==
    [][ /\ (pc = "fee_confirm" /\ pc' \notin {"fee_confirm", "fee_prompt"}) =>
             /\ fee' = size * fee_basis
             /\ fee' <= 500000
             /\ fee_answer' = "y"
        /\ pc' = "fee_confirm" =>
             /\ gf_fee' = size' * fee_basis'
             /\ gf_fee' <= 500000
        /\ (pc = "fee_prompt" /\ pc' # "error" /\ size' * fee_basis' > 500000) =>
             /\ pc' = "fee_prompt"
             /\ msg' = "fee_too_high"
        /\ (pc = "fee_confirm" /\ fee_answer' = "n") =>
             /\ pc' = "fee_prompt"
             /\ fee' = fee
      ]_vars

\* a fee was returned after its confirmation
C3_Witness ==
    /\ pc = "amount" /\ fee_answer = "y" /\ fee = 4 /\ entered.fee = 4

\* C4: the createrawtransaction request of the final transaction holds no
\* output whose amount is zero.
C4_NoZeroOutput ==
    final_request.made =>
        \A i \in 1..Len(final_request.outputs) : final_request.outputs[i].val.sat # 0

\* C7: every result of sign_transaction has had its "complete" flag shown to
\* the operator, unchanged.
C7_EverySigningSurfaced ==
    /\ ~unsurfaced_signing
    /\ signed_tx.present =>
         /\ printed_complete.shown
         /\ printed_complete.value = signed_tx.complete

\* the plan that the entries of the current loop iteration, and nothing
\* else, lead to
EnteredInput == UtxoSum(CollectUtxos(entered.txs, entered.source))
EnteredPlan ==
    PlanOutcome(entered.source, entered.dest,
                DictSet(DictSet(<<>>, entered.source, PyInt(0)), entered.dest, PyInt(0)),
                EnteredInput, entered.fee, entered.amount)

\* C8: the final unsigned transaction is built once, only after a yes, and
\* only from what was entered in the confirmed iteration; a declined
\* confirmation restarts the loop with the mapping, the transactions, the
\* UTXOs, their sum, the keys and the fee set anew.
C8_FinalFromConfirmedIteration ==
    /\ n_final_builds <= 1
    /\ final_request.made =>
         /\ plan_answer = "y"
         /\ n_final_builds = 1
         /\ final_request =
              CreateRawRequest(entered.source, EnteredPlan.addresses, entered.txs)
    /\ final_sign_request.made =>
         final_sign_request =
           SignRequest(entered.source, entered.keys, redeem_script, entered.txs)
    /\ pc \in {"fee_prompt", "fee_confirm", "amount", "confirm", "final",
               "write_qr", "done"} =>
         /\ source_address = entered.source /\ dest_address = entered.dest
         /\ DictKeys(addresses) = {entered.source, entered.dest}
         /\ txs = entered.txs
         /\ utxos = CollectUtxos(entered.txs, entered.source)
         /\ utxo_sum = EnteredInput /\ input_amount = EnteredInput
         /\ keys = entered.keys
    /\ pc \in {"fee_prompt", "fee_confirm", "amount"} =>
         \A i \in 1..Len(addresses) : addresses[i].val = PyInt(0)
    /\ pc \in {"amount", "confirm", "final", "write_qr", "done"} => fee = entered.fee
    /\ PlanPresented => addresses = EnteredPlan.addresses
    /\ (pc = "loop_top" /\ plan_declined) => ~final_request.made

\* a transaction was built and signed after an earlier plan was declined
C8_Witness ==
    /\ pc = "done" /\ plan_declined /\ plan_answer = "y"
    /\ n_final_builds = 1 /\ final_request.made

\* C9 as stated: each of the three threshold violations is followed by a
\* re-prompt, never by the end of the process or an exception.
C9_AllRecoveredLocally ==
    /\ (msg = "fee_too_high" /\ raised = "none") => pc = "fee_prompt"
    /\ msg = "fee_greater_than_input" => pc \notin {"exit", "error"}
    /\ msg = "outputs_greater_than_input" => pc \notin {"exit", "error"}

\* C9 amended: a fee above the ceiling leads back to the rate prompt; a fee
\* greater than the input ends the process (sys.exit); fee plus withdrawal
\* amount greater than the input raises out of withdraw_interactive.
C9_CeilingRetriesOthersEnd ==
    /\ (msg = "fee_too_high" /\ raised = "none") => pc = "fee_prompt"
    /\ msg = "fee_greater_than_input" =>
         pc = "exit" /\ raised = "none" /\ fee > input_amount
    /\ msg = "outputs_greater_than_input" =>
         /\ pc = "error" /\ raised = "output_values_greater_than_input"
         /\ fee + withdrawal_amount > input_amount
    /\ (pc = "fee_prompt" /\ gf_fee > 500000) => msg = "fee_too_high"
    /\ (PlanPresented \/ pc = "amount") => fee <= input_amount

\* the process ended on a confirmed fee greater than the input
C9_Witness ==
    /\ pc = "exit" /\ msg = "fee_greater_than_input"
    /\ fee_answer = "y" /\ fee > input_amount

\* C15: in every plan put before the operator the change is
\* total input - withdrawal amount - fee, kept at that exact value when it
\* is one satoshi or more, and zero only when it is smaller than one satoshi.
C15_ChangeFloorOneSatoshi ==
    PlanPresented =>
        LET exact == input_amount - withdrawal_amount - fee
        IN  /\ change_amount = IF exact < 1 THEN 0 ELSE exact
            /\ \E i \in 1..Len(addresses) :
                 /\ addresses[i].key = source_address
                 /\ source_address # dest_address => addresses[i].val.sat = change_amount

\* the addresses of the outputs of a createrawtransaction request
OutputAddresses(request) ==
    { request.outputs[i].key : i \in 1..Len(request.outputs) }

\* C16: the transaction get_fee_interactive built and signed to measure the
\* size of has the inputs and the output addresses (hence the number of
\* outputs) of the transaction finally built from the confirmed plan.
C16_MeasuredShapeIsFinalShape ==
    final_request.made =>
        /\ entered.measured.made
        /\ final_request.inputs = entered.measured.inputs
        /\ Len(final_request.outputs) = Len(entered.measured.outputs)
        /\ OutputAddresses(final_request) = OutputAddresses(entered.measured)

\* C17: in every plan put before the operator, the fee, the withdrawal
\* amount and the change are all at least zero and at most the total input.
C17_AmountsWithinInput ==
    PlanPresented =>
        /\ 0 <= fee /\ fee <= input_amount
        /\ 0 <= withdrawal_amount /\ withdrawal_amount <= input_amount
        /\ 0 <= change_amount /\ change_amount <= input_amount

\* the output an input (txid, vout) refers to, among the transactions given
ReferencedOutputs(input, txlist) ==
    UNION { { txlist[j].vout[k] :
                k \in { kk \in 1..Len(txlist[j].vout) :
                          txlist[j].vout[kk].n = input.vout } } :
            j \in { jj \in 1..Len(txlist) : txlist[jj].txid = input.txid } }
\* the (txid, vout) pairs of a list of inputs
OutPoints(inputs) == [i \in 1..Len(inputs) |-> << inputs[i].txid, inputs[i].vout >>]

\* C18: the inputs sent to createrawtransaction, the per-input metadata
\* sent to signrawtransactionwithkey and the UTXOs summed into the total
\* input are the same (txid, vout) pairs in the same order, one per UTXO of
\* the source address, and the total input is the sum of the (quantized)
\* values of the outputs the inputs refer to.
C18_InputsAreTheSummedUtxos ==
    /\ (final_request.made /\ final_sign_request.made) =>
         OutPoints(final_request.inputs) = OutPoints(final_sign_request.inputs)
    /\ \A request \in {measure_request, final_request} :
         request.made =>
           /\ Len(request.inputs) = Len(utxos)
           /\ \A i \in 1..Len(utxos) :
                /\ request.inputs[i].vout = utxos[i].n
                /\ ReferencedOutputs(request.inputs[i], txs) = { utxos[i] }
                /\ utxos[i].scriptPubKey.address = source_address
           /\ input_amount =
                SumSeq([i \in 1..Len(request.inputs) |->
                          QuantizeSat((CHOOSE o \in ReferencedOutputs(request.inputs[i], txs) :
                                         TRUE).value)])
    /\ final_sign_request.made =>
         \A i \in 1..Len(final_sign_request.inputs) :
             /\ i <= Len(utxos)
             /\ final_sign_request.inputs[i].amount = utxos[i].value

\* a transaction with two inputs, from two transactions, was built and signed
C18_Witness ==
    /\ pc = "done"
    /\ Len(final_request.inputs) = 2
    /\ final_request.inputs[1].txid # final_request.inputs[2].txid
    /\ final_sign_request.made
    /\ input_amount = 6

(***************************************************************************)
(* deposit_interactive                                                     *)
(***************************************************************************)
\* The WIF keys the entropy of one key can come out as.  (The dice and RNG
\* prompts, SHA-256, the XOR and the base58check encoding decide which; the
\* deposit flow only appends the result.)
WifKeys == {"W1", "W2"}
\* the address the node returns first for a key's label
NodeAddress == [k \in WifKeys |-> IF k = "W1" THEN "addr1" ELSE "addr2"]

DInit ==
    /\ d_pc = "start"
    /\ m \in 1..MaxM /\ n \in 1..MaxN
    /\ d_keys = <<>> /\ d_addresses = <<>> /\ d_calls = <<>>
    /\ d_multisig = NoMultisig /\ d_raised = "none"

\* safety_checklist(), ensure_bitcoind_running(),
\* require_minimum_bitcoind_version(220000)
D_Start ==
    /\ d_pc = "start"
    /\ \E outcome \in {"ok", "unsafe", "timeout", "getnetworkinfo_failed", "old_version"} :
         /\ d_pc' = CASE outcome = "ok" -> "keys"
                      [] outcome \in {"unsafe", "old_version"} -> "exit"
                      [] OTHER -> "error"
         /\ d_raised' = IF outcome \in {"timeout", "getnetworkinfo_failed"}
                        THEN outcome ELSE "none"
    /\ UNCHANGED << m, n, d_keys, d_addresses, d_calls, d_multisig >>
    /\ UNCHANGED << wvars, uvars, qvars, xvars, evars >>

\* the test of "while len(keys) < n"
MoreKeysWanted(k, total) == Len(k) < total

\* one pass of the key loop
D_CreateKey ==
    /\ d_pc = "keys"
    /\ MoreKeysWanted(d_keys, n)
    /\ \E key \in WifKeys : d_keys' = Append(d_keys, key)
    /\ UNCHANGED << d_pc, m, n, d_addresses, d_calls, d_multisig, d_raised >>
    /\ UNCHANGED << wvars, uvars, qvars, xvars, evars >>

\* the key loop ends: "Private keys created."
D_KeysCreated ==
    /\ d_pc = "keys"
    /\ ~MoreKeysWanted(d_keys, n)
    /\ d_pc' = "addresses"
    /\ UNCHANGED << m, n, d_keys, d_addresses, d_calls, d_multisig, d_raised >>
    /\ UNCHANGED << wvars, uvars, qvars, xvars, evars >>

\* whether get_address_for_wif_privkey goes on after importprivkey returned
\* `ok`: bitcoin_cli_call hands back the return code, which is dropped
ContinuesAfterImport(ok) == TRUE

\* get_address_for_wif_privkey(key) for the next key of the comprehension:
\* ensure_bitcoind_running(), importprivkey, getaddressesbylabel
D_GetAddress ==
    /\ d_pc = "addresses"
    /\ Len(d_addresses) < Len(d_keys)
    /\ \E up \in BOOLEAN, import_ok \in BOOLEAN, label_ok \in BOOLEAN :
         LET key == d_keys[Len(d_addresses) + 1]
             import == [cmd |-> "importprivkey", arg |-> key, ok |-> import_ok]
             bylabel == [cmd |-> "getaddressesbylabel", arg |-> key, ok |-> label_ok]
             goes_on == ContinuesAfterImport(import_ok)
         IN  IF ~up
             THEN /\ d_pc' = "error" /\ d_raised' = "timeout"
                  /\ UNCHANGED << d_calls, d_addresses >>
             ELSE /\ d_calls' = IF goes_on THEN d_calls \o << import, bylabel >>
                                ELSE Append(d_calls, import)
                  /\ IF goes_on /\ label_ok
                     THEN /\ d_addresses' = Append(d_addresses, NodeAddress[key])
                          /\ UNCHANGED << d_pc, d_raised >>
                     ELSE /\ d_pc' = "error"
                          /\ d_raised' = IF goes_on THEN "getaddressesbylabel"
                                         ELSE "importprivkey"
                          /\ UNCHANGED d_addresses
    /\ UNCHANGED << m, n, d_keys, d_multisig >>
    /\ UNCHANGED << wvars, uvars, qvars, xvars, evars >>

\* addmultisigaddress(m, addresses, address_type), once every key has its
\* address; then the keys, the address and the redeem script are printed
D_Multisig ==
    /\ d_pc = "addresses"
    /\ Len(d_addresses) = Len(d_keys)
    /\ \E ok \in BOOLEAN :
         /\ d_multisig' = [made |-> TRUE, m |-> m, keys |-> d_addresses]
         /\ d_calls' = Append(d_calls, [cmd |-> "addmultisigaddress", arg |-> "", ok |-> ok])
         /\ d_pc' = IF ok THEN "write_qr" ELSE "error"
         /\ d_raised' = IF ok THEN "none" ELSE "addmultisigaddress"
    /\ UNCHANGED << m, n, d_keys, d_addresses >>
    /\ UNCHANGED << wvars, uvars, qvars, xvars, evars >>

\* the two write_and_verify_qr_code calls: qrencode and zbarimg run with
\* check=True, so a failure of either raises
D_WriteQr ==
    /\ d_pc = "write_qr"
    /\ \E ok \in BOOLEAN :
         /\ d_pc' = IF ok THEN "done" ELSE "error"
         /\ d_raised' = IF ok THEN "none" ELSE "qr"
    /\ UNCHANGED << m, n, d_keys, d_addresses, d_calls, d_multisig >>
    /\ UNCHANGED << wvars, uvars, qvars, xvars, evars >>

DNext ==
    \/ D_Start
    \/ D_CreateKey
    \/ D_KeysCreated
    \/ D_GetAddress
    \/ D_Multisig
    \/ D_WriteQr

\* create-deposit-data
InitDeposit == DInit /\ WIdle /\ UIdle /\ HelpersIdle

SpecDeposit == InitDeposit /\ [][DNext]_vars

\* C5: addmultisigaddress is called only with 1 <= m <= n and exactly n
\* addresses, and a request with m > n is rejected before any key is
\* imported and before any multisig call.
C5_MultisigOnlyWhenValid ==
    /\ d_multisig.made =>
         /\ 1 <= d_multisig.m /\ d_multisig.m <= n
         /\ Len(d_multisig.keys) = n
    /\ m > n =>
         \A i \in 1..Len(d_calls) :
             d_calls[i].cmd \notin {"importprivkey", "addmultisigaddress"}

\* C6: a failed call of the external node is the last one made, and the
\* operation has ended in an error: nothing runs after it, and it is not
\* made again.
C6_FailedCallAborts ==
    \A i \in 1..Len(d_calls) :
        ~d_calls[i].ok => (i = Len(d_calls) /\ d_pc = "error")

(***************************************************************************)
(* get_utxos on its own                                                    *)
(***************************************************************************)
\* what an output's scriptPubKey can look like: paying one of two
\* addresses, or without the "address" field
SpkKinds == {"A", "B", "none"}
SpkOfKind(k) == IF k = "none" THEN SpkNoAddress ELSE Spk(k)
\* decoded transactions of up to MaxVout outputs
UTxs ==
    UNION { { [txid |-> "t", vout |-> [i \in 1..k |-> Vout(i - 1, 10 * i, SpkOfKind(kinds[i]))]]
              : kinds \in [1..k -> SpkKinds] }
            : k \in 0..MaxVout }
\* the address asked for: "C" is paid by no output
UAddrs == {"A", "B", "C"}

UInit ==
    /\ u_pc = "call"
    /\ u_tx \in UTxs
    /\ u_tx0 = u_tx
    /\ u_address \in UAddrs
    /\ u_result = NoResult

\* utxos = get_utxos(tx, address); the function assigns to neither
U_GetUtxos ==
    /\ u_pc = "call"
    /\ u_result' = get_utxos_outcome(u_tx, u_address)
    /\ u_pc' = "returned"
    /\ UNCHANGED << u_tx, u_address, u_tx0 >>
    /\ UNCHANGED << wvars, dvars, qvars, xvars, evars >>

UNext ==
    \/ U_GetUtxos

InitUtxos == UInit /\ WIdle /\ DIdle /\ HelpersIdle

SpecUtxos == InitUtxos /\ [][UNext]_vars

\* an output carries the "address" field and it equals the address asked for
PaysTo(output, address) ==
    /\ "address" \in DOMAIN output.scriptPubKey
    /\ output.scriptPubKey.address = address

\* C10: get_utxos(tx, addr) returns exactly the outputs of tx["vout"] whose
\* scriptPubKey has an "address" equal to addr, in their order; outputs
\* without the field are skipped without an exception; nothing matching
\* gives the empty list; tx is as it was.
C10_GetUtxosExact ==
    u_pc = "returned" =>
        /\ ~u_result.raised
        /\ u_result.utxos = SelectSeq(u_tx0.vout, LAMBDA o : PaysTo(o, u_address))
        /\ ((\A i \in 1..Len(u_tx0.vout) : ~PaysTo(u_tx0.vout[i], u_address))
              => u_result.utxos = <<>>)
        /\ u_tx = u_tx0

\* a call on a transaction with an output that lacks the field, one that
\* pays another address and one that pays the address asked for
C10_Witness ==
    /\ u_pc = "returned"
    /\ Len(u_tx0.vout) = 3
    /\ \E i \in 1..3 : "address" \notin DOMAIN u_tx0.vout[i].scriptPubKey
    /\ \E i \in 1..3 : PaysTo(u_tx0.vout[i], "B")
    /\ u_address = "A"
    /\ Len(u_result.utxos) = 1


(***************************************************************************)
(* write_and_verify_qr_code(name, filename, data)                          *)
(*                                                                         *)
(* data is modelled by its length, by whether data.upper() == data, and by *)
(* whether it starts with a whitespace character (which zbarimg's output,  *)
(* once strip()ped, no longer has).  A piece of data is the slice          *)
(* data[lo:hi]; a file's content is such a slice, or something else.       *)
(* A file name is base + tail + ext, where the tail is nothing (idx 0),    *)
(* "-%02d" % idx (idx >= 1) or some other text (idx -1).                   *)
(***************************************************************************)
\* largest number of MAX_QR_LEN-sized pieces the data is drawn from
MaxChunks == 2

\* MAX_QR_LEN = 4200 if all_upper_case else 2800
MAX_QR_LEN_UPPER == 4200
MAX_QR_LEN_MIXED == 2800
MAX_QR_LEN(all_upper_case) ==
    IF all_upper_case THEN MAX_QR_LEN_UPPER ELSE MAX_QR_LEN_MIXED

\* os.path.splitext(filename) of the caller's filename
QrBase == "transaction"
QrExt == ".png"
FileName(base, idx, ext) == [base |-> base, idx |-> idx, ext |-> ext]

\* lengths around the multiples of both thresholds
DataLens ==
    { l \in UNION { { k * t - 1, k * t, k * t + 1 } :
                      k \in 0..MaxChunks, t \in {MAX_QR_LEN_UPPER, MAX_QR_LEN_MIXED} } :
        l >= 0 }
QrDatas ==
    { d \in [len : DataLens, upper : BOOLEAN, ws : BOOLEAN] : d.ws => d.len > 0 }

Slice(lo, hi) == [lo |-> lo, hi |-> hi]
\* content that is no slice of data
Foreign == [lo |-> -1, hi |-> -1]
File(name, content) == [name |-> name, content |-> content]

\* files an earlier call (or anything else) may have left behind
StaleSets ==
    { {} } \cup
    { { File(FileName(QrBase, 0, QrExt), Foreign) } } \cup
    { { File(FileName(QrBase, i, QrExt), Foreign) : i \in 1..k } :
        k \in 2..(2 * MaxChunks + 1) }
OtherFiles ==
    SUBSET { File(FileName(QrBase, -1, QrExt), Foreign),
             File(FileName("address", 0, QrExt), Foreign),
             File(FileName(QrBase, 1, ".txt"), Foreign) }

\* glob.glob("{}*{}".format(base, ext)) matches the name
GlobMatches(name, base, ext) == name.base = base /\ name.ext = ext

\* for deleteme in glob.glob(...): os.remove(deleteme)
RemoveStaleSameCount(files, base, ext) ==
    { f \in files : ~(GlobMatches(f.name, base, ext) /\ f.name.idx = 0) }
RemoveStale(files, base, ext) ==
    { f \in files : ~GlobMatches(f.name, base, ext) }

\* qrencode -o filename data: the file is created or overwritten
WriteFile(files, name, content) ==
    { f \in files : f.name # name } \cup { File(name, content) }

Min(a, b) == IF a < b THEN a ELSE b

\* The loop "while len(intdata) > 0": intdata is data[lo:], the pieces are
\* written one by one as base-idx ext; the qrencode call number fail_at
\* fails (0: none does), which ends the loop with an exception.
RECURSIVE WriteChunks(_, _, _, _, _, _)
WriteChunks(files, filenames, lo, len, t, fail_at) ==
    IF ~(len - lo > 0)
    THEN [files |-> files, filenames |-> filenames, raised |-> FALSE]
    ELSE LET thisdata == Slice(lo, Min(lo + t, len))
             idx == Len(filenames) + 1
             thisfile == FileName(QrBase, idx, QrExt)
         IN  IF fail_at = idx
             THEN [files |-> files, filenames |-> Append(filenames, thisfile),
                   raised |-> TRUE]
             ELSE WriteChunks(WriteFile(files, thisfile, thisdata),
                              Append(filenames, thisfile),
                              Min(lo + t, len), len, t, fail_at)

\* lines 575-595: what is on disk and in filenames when writing is over
WriteOutcome(files, data, fail_at) ==
    LET cleaned == RemoveStale(files, QrBase, QrExt)
        t == MAX_QR_LEN(data.upper)
        filename == FileName(QrBase, 0, QrExt)
    IN  IF data.len <= t
        THEN IF fail_at = 1
             THEN [files |-> cleaned, filenames |-> <<>>, raised |-> TRUE]
             ELSE [files |-> WriteFile(cleaned, filename, Slice(0, data.len)),
                   filenames |-> << filename >>, raised |-> FALSE]
        ELSE WriteChunks(cleaned, <<>>, 0, data.len, t, fail_at)

\* the content of the file of that name
ContentOf(files, name) == (CHOOSE f \in files : f.name = name).content

\* str.strip() of a piece of data: a leading whitespace character goes
Strip(data, piece) ==
    IF data.ws /\ piece.lo = 0 /\ piece.hi > 0 THEN Slice(1, piece.hi) ELSE piece

\* ''.join(pieces) == data: the pieces that are not empty follow one
\* another from the first character of data to its last
RECURSIVE JoinedUpTo(_, _)
JoinedUpTo(pieces, pos) ==
    IF pieces = <<>> THEN pos
    ELSE LET p == Head(pieces)
         IN  IF p.lo = p.hi /\ p.lo >= 0 THEN JoinedUpTo(Tail(pieces), pos)
             ELSE IF p.lo = pos /\ pos >= 0 THEN JoinedUpTo(Tail(pieces), p.hi)
             ELSE -1
JoinEquals(pieces, data) == JoinedUpTo(pieces, 0) = data.len

QInit ==
    /\ q_pc = "call"
    /\ q_data \in QrDatas
    /\ \E stale \in StaleSets, other \in OtherFiles : q_files = stale \cup other
    /\ q_files0 = q_files
    /\ q_filenames = <<>> /\ q_qrdata = <<>>
    /\ q_warned = FALSE /\ q_printed = FALSE /\ q_raised = "none"

\* lines 575-595: the stale files go, the data is written in one file or in
\* pieces; a failing qrencode (check=True) raises
Q_Write ==
    /\ q_pc = "call"
    /\ \E fail_at \in 0..(2 * MaxChunks + 2) :
         LET out == WriteOutcome(q_files, q_data, fail_at)
         IN  /\ fail_at # 0 => out.raised
             /\ q_files' = out.files
             /\ q_filenames' = out.filenames
             /\ q_pc' = IF out.raised THEN "raised" ELSE "written"
             /\ q_raised' = IF out.raised THEN "qrencode" ELSE "none"
    /\ UNCHANGED << q_data, q_qrdata, q_warned, q_printed, q_files0 >>
    /\ UNCHANGED << wvars, dvars, uvars, xvars, evars >>

\* what zbarimg makes of each file, in order: the file's content, something
\* else, or a nonzero exit (check=True raises; so does decode('ascii') of
\* output that is not ASCII)
DecodeKinds == {"content", "other", "fail"}

\* whether the warning is printed
MismatchAlways(qrdata, data) == TRUE
Mismatch(qrdata, data) == ~JoinEquals(qrdata, data)

\* lines 597-603: decode_qr(filenames), the comparison, the warning and
\* the closing line
Q_Verify ==
    /\ q_pc = "written"
    /\ \E kinds \in [1..Len(q_filenames) -> DecodeKinds] :
         LET failed == { i \in 1..Len(q_filenames) : kinds[i] = "fail" }
             decoded == [i \in 1..Len(q_filenames) |->
                           IF kinds[i] = "content"
                           THEN Strip(q_data, ContentOf(q_files, q_filenames[i]))
                           ELSE Foreign]
         IN  IF failed # {}
             THEN /\ q_pc' = "raised"
                  /\ q_raised' = "zbarimg"
                  /\ UNCHANGED << q_qrdata, q_warned, q_printed >>
             ELSE /\ q_qrdata' = decoded
                  /\ q_warned' = Mismatch(decoded, q_data)
                  /\ q_printed' = TRUE
                  /\ q_pc' = "done"
                  /\ q_raised' = "none"
    /\ UNCHANGED << q_data, q_files, q_filenames, q_files0 >>
    /\ UNCHANGED << wvars, dvars, uvars, xvars, evars >>

QNext ==
    \/ Q_Write
    \/ Q_Verify

InitQr == QInit /\ WIdle /\ DIdle /\ UIdle /\ XIdle /\ EIdle

SpecQr == InitQr /\ [][QNext]_vars

\* ceil(a / b)
CeilDiv(a, b) == (a + b - 1) \div b

\* the files now present whose names match <base>*<ext>
MatchingFiles == { f \in q_files : GlobMatches(f.name, QrBase, QrExt) }

\* C11: when write_and_verify_qr_code has finished writing, the files that
\* match <base>*<ext> are exactly the ones just written: <base><ext> alone,
\* holding all of data, when len(data) <= T; otherwise ceil(len(data)/T)
\* files <base>-NN<ext> numbered from 01, each holding at most T characters,
\* which put together in order are data.  No stale matching file is left.
C11_ArtifactsExactlyWritten ==
    q_pc = "written" =>
        LET t == IF q_data.upper THEN 4200 ELSE 2800
            k == Len(q_filenames)
        IN  /\ { f.name : f \in MatchingFiles } = { q_filenames[i] : i \in 1..k }
            /\ Cardinality(MatchingFiles) = k
            /\ IF q_data.len <= t
               THEN /\ q_filenames = << FileName(QrBase, 0, QrExt) >>
                    /\ ContentOf(q_files, q_filenames[1]) = Slice(0, q_data.len)
               ELSE /\ k = CeilDiv(q_data.len, t)
                    /\ \A i \in 1..k :
                         LET c == ContentOf(q_files, q_filenames[i])
                         IN  /\ q_filenames[i] = FileName(QrBase, i, QrExt)
                             /\ c.lo = (i - 1) * t
                             /\ c.hi > c.lo /\ c.hi - c.lo <= t
                             /\ c.hi = IF i = k THEN q_data.len
                                       ELSE ContentOf(q_files, q_filenames[i + 1]).lo

\* a call that wrote fewer pieces than an earlier one had left behind
C11_Witness ==
    /\ q_pc = "written"
    /\ Len(q_filenames) = 2
    /\ \E f \in q_files0 : GlobMatches(f.name, QrBase, QrExt) /\ f.name.idx > 2
    /\ \E f \in q_files0 : GlobMatches(f.name, QrBase, QrExt) /\ f.name.idx = -1


\* every file written is still there, holding what was written
ArtifactsInPlace ==
    \A i \in 1..Len(q_filenames) :
        \E f \in q_files :
            /\ f.name = q_filenames[i]
            /\ f.content.lo >= 0
            /\ f.content.hi - f.content.lo <= MAX_QR_LEN(q_data.upper)

\* C12 as stated: once the artifacts are written, write_and_verify_qr_code
\* always decodes every one of them and compares what they decode to with
\* data; the warning is printed exactly when the two differ, and the call
\* ends normally with the artifacts in place.
C12_AlwaysVerifiedNonFatal ==
    (q_pc \in {"done", "raised"} /\ q_raised # "qrencode") =>
        /\ q_pc = "done"
        /\ Len(q_qrdata) = Len(q_filenames)
        /\ q_warned <=> ~JoinEquals(q_qrdata, q_data)
        /\ ArtifactsInPlace

\* C12, amended: when every artifact decodes (zbarimg exits with 0 and its
\* output is ASCII), the decoded pieces are compared with data, the warning
\* is printed exactly when they differ, and the call ends normally with
\* the artifacts in place.  When the decoder fails on an artifact, the call
\* ends in an exception instead: nothing is compared, no warning and no
\* closing line is printed; the artifacts stay in place.
C12_VerifiedUnlessDecoderFails ==
    /\ q_pc = "done" =>
           /\ Len(q_qrdata) = Len(q_filenames)
           /\ q_warned <=> ~JoinEquals(q_qrdata, q_data)
           /\ q_printed
           /\ q_raised = "none"
           /\ ArtifactsInPlace
    /\ (q_pc = "raised" /\ q_raised = "zbarimg") =>
           /\ q_qrdata = <<>>
           /\ ~q_warned /\ ~q_printed
           /\ ArtifactsInPlace
    /\ q_warned => q_pc = "done"

\* pieces were written, one of them decoded to something else, the warning
\* was printed and the call ended normally
C12_Witness ==
    /\ q_pc = "done"
    /\ Len(q_filenames) >= 2
    /\ \E i \in 1..Len(q_qrdata) : q_qrdata[i] = Foreign
    /\ q_warned
    /\ q_printed


(***************************************************************************)
(* xor_hex_strings(str1, str2)                                             *)
(*                                                                         *)
(* A hex string is the sequence of the values (0..15) of its characters.   *)
(***************************************************************************)
\* largest number of characters of the strings
MaxHexLen == 2

\* the characters the strings are made of: 0, 1, 9, a, f
HexChars == {0, 1, 9, 10, 15}
HexStrings == UNION { [1..l -> HexChars] : l \in 0..MaxHexLen }

\* int(s, 16) of a string of hex characters that is not empty
RECURSIVE HexValue(_)
HexValue(s) ==
    IF s = <<>> THEN 0
    ELSE 16 * HexValue(SubSeq(s, 1, Len(s) - 1)) + s[Len(s)]

\* a ^ b of two ints that are not negative
RECURSIVE BitXor(_, _)
BitXor(a, b) ==
    IF a = 0 THEN b
    ELSE IF b = 0 THEN a
    ELSE 2 * BitXor(a \div 2, b \div 2) + (IF a % 2 = b % 2 THEN 0 ELSE 1)

\* "{:x}".format(v): the hex characters of v, at least one
RECURSIVE HexChars_of(_)
HexChars_of(v) ==
    IF v < 16 THEN << v >> ELSE Append(HexChars_of(v \div 16), v % 16)

\* "{:0{}x}".format(v, width): padded on the left with zeros to width
FormatHexNoPad(v, width) == HexChars_of(v)
FormatHex(v, width) ==
    LET h == HexChars_of(v)
    IN  IF Len(h) >= width THEN h
        ELSE [i \in 1..(width - Len(h)) |-> 0] \o h

\* the call's outcome: the exception it raises, or the string it returns
xor_hex_strings(a, b) ==
    IF Len(a) # Len(b)
    THEN [raised |-> "unequal_length", result |-> <<>>]
    ELSE IF a = <<>>
    THEN \* int('', 16) raises ValueError
         [raised |-> "ValueError", result |-> <<>>]
    ELSE [raised |-> "none",
          result |-> FormatHex(BitXor(HexValue(a), HexValue(b)), Len(a))]

XInit ==
    /\ x_pc = "call"
    /\ str1 \in HexStrings
    /\ str2 \in HexStrings
    /\ x_result = <<>>
    /\ x_raised = "none"

X_Xor ==
    /\ x_pc = "call"
    /\ LET out == xor_hex_strings(str1, str2)
       IN  /\ x_result' = out.result
           /\ x_raised' = out.raised
           /\ x_pc' = IF out.raised = "none" THEN "done" ELSE "raised"
    /\ UNCHANGED << str1, str2 >>
    /\ UNCHANGED << wvars, dvars, uvars, qvars, evars >>

XNext ==
    \/ X_Xor

InitXor == XInit /\ WIdle /\ DIdle /\ UIdle /\ QIdle /\ EIdle

SpecXor == InitXor /\ [][XNext]_vars

\* the four bits of a hex character, lowest first
BitsOf(c) == [i \in 1..4 |-> (c \div (2 ^ (i - 1))) % 2]
\* the hex character whose bits are the exclusive or of the bits of c and d
CharXor(c, d) ==
    LET x == [i \in 1..4 |-> IF BitsOf(c)[i] = BitsOf(d)[i] THEN 0 ELSE 1]
    IN  x[1] + 2 * x[2] + 4 * x[3] + 8 * x[4]

\* C13: for hex strings A and B of equal length, xor_hex_strings(A, B) =
\* xor_hex_strings(B, A), xor_hex_strings(A, A) is all zeros, and the result
\* has as many hex characters as the inputs (leading zeros kept) and is the
\* bitwise exclusive or of the two values.
C13_XorCommutesKeepsWidth ==
    (x_pc # "call" /\ Len(str1) = Len(str2) /\ Len(str1) >= 1) =>
        /\ x_pc = "done" /\ x_raised = "none"
        /\ x_result = xor_hex_strings(str2, str1).result
        /\ xor_hex_strings(str2, str1).raised = "none"
        /\ xor_hex_strings(str1, str1).result = [i \in 1..Len(str1) |-> 0]
        /\ Len(x_result) = Len(str1)
        /\ \A i \in 1..Len(str1) : x_result[i] = CharXor(str1[i], str2[i])

\* two different strings whose exclusive or needs its leading zero
C13_Witness ==
    /\ x_pc = "done"
    /\ Len(str1) = MaxHexLen
    /\ str1 # str2
    /\ str1[1] = str2[1] /\ str1[1] # 0
    /\ x_result[1] = 0 /\ x_result[MaxHexLen] # 0


(***************************************************************************)
(* ensure_bitcoind_running()                                               *)
(***************************************************************************)
\* the 20 of "while times <= 20"
PROBE_LIMIT == 20

\* while times <= 20
LoopContinuesOneMore(t) == t <= PROBE_LIMIT + 1
LoopContinues(t) == t <= PROBE_LIMIT

Call(name, result) == [call |-> name, result |-> result]

\* create_default_wallet(): the calls it makes with their results, and
\* whether it returns or raises
WalletRuns ==
    { [calls |-> << Call("listwallets", "failed") >>, raised |-> "listwallets"],
      [calls |-> << Call("listwallets", "default_loaded") >>, raised |-> "none"],
      [calls |-> << Call("listwallets", "default_not_loaded"),
                    Call("listwalletdir", "failed") >>, raised |-> "listwalletdir"] }
    \cup
    { [calls |-> << Call("listwallets", "default_not_loaded"),
                    Call("listwalletdir", IF cmd = "loadwallet" THEN "found" ELSE "not_found"),
                    Call(cmd, result) >>,
       raised |-> CASE result = "failed" -> cmd
                    [] result = "warning" -> "problem_running_on_default_wallet"
                    [] OTHER -> "none"] :
        cmd \in {"loadwallet", "createwallet"}, result \in {"failed", "warning", "ok"} }

EInit ==
    /\ e_pc = "call"
    /\ times = 0 /\ e_daemon = 0
    /\ e_probes = <<>> /\ e_sleeps = 0 /\ e_wallet = <<>>
    /\ e_raised = "none"

\* bitcoind_call("-daemon", "-connect=0.0.0.0") (its return code is not
\* looked at), time.sleep(1), times = 0
E_StartDaemon ==
    /\ e_pc = "call"
    /\ \E retcode \in {0, 1} : e_daemon' = retcode
    /\ times' = 0
    /\ e_pc' = "loop"
    /\ UNCHANGED << e_probes, e_sleeps, e_wallet, e_raised >>
    /\ UNCHANGED << wvars, dvars, uvars, qvars, xvars >>

\* one pass of the loop whose probe fails: times += 1, getnetworkinfo
\* returns nonzero, time.sleep(0.5)
E_ProbeFails ==
    /\ e_pc = "loop"
    /\ LoopContinues(times)
    /\ times' = times + 1
    /\ e_probes' = Append(e_probes, "failed")
    /\ e_sleeps' = e_sleeps + 1
    /\ UNCHANGED << e_pc, e_daemon, e_wallet, e_raised >>
    /\ UNCHANGED << wvars, dvars, uvars, qvars, xvars >>

\* the pass whose probe succeeds: times += 1, getnetworkinfo returns 0,
\* create_default_wallet(), return
E_ProbeSucceeds ==
    /\ e_pc = "loop"
    /\ LoopContinues(times)
    /\ times' = times + 1
    /\ e_probes' = Append(e_probes, "ok")
    /\ \E run \in WalletRuns :
         /\ e_wallet' = run.calls
         /\ e_raised' = run.raised
         /\ e_pc' = IF run.raised = "none" THEN "returned" ELSE "raised"
    /\ UNCHANGED << e_daemon, e_sleeps >>
    /\ UNCHANGED << wvars, dvars, uvars, qvars, xvars >>

\* the loop is left: raise Exception("Timeout while starting bitcoin server")
E_Timeout ==
    /\ e_pc = "loop"
    /\ ~LoopContinues(times)
    /\ e_pc' = "raised"
    /\ e_raised' = "timeout"
    /\ UNCHANGED << times, e_daemon, e_probes, e_sleeps, e_wallet >>
    /\ UNCHANGED << wvars, dvars, uvars, qvars, xvars >>

ENext ==
    \/ E_StartDaemon
    \/ E_ProbeFails
    \/ E_ProbeSucceeds
    \/ E_Timeout

InitEnsure == EInit /\ WIdle /\ DIdle /\ UIdle /\ QIdle /\ XIdle

\* The program is sequential and every call of the external node is a
\* blocking subprocess call that returns: a step that can be taken is taken.
SpecEnsure == InitEnsure /\ [][ENext]_vars /\ WF_vars(ENext)

\* the call is over
EnsureOver == e_pc \in {"returned", "raised"}

\* the default wallet is loaded
WalletEnsured ==
    /\ e_wallet # <<>>
    /\ e_wallet[Len(e_wallet)] \in
         { Call("listwallets", "default_loaded"), Call("loadwallet", "ok"),
           Call("createwallet", "ok") }

=============================================================================
